---- MODULE Spec2Model ----
(***************************************************************************)
(* Model of genstrokes.py: the stroke-order diagram generator.             *)
(*                                                                         *)
(* Strings are sequences of one-character strings.  Numbers read by        *)
(* float() are IEEE-754 binary64 values, kept exactly: float() rounds the  *)
(* decimal it reads to the nearest float, float + int rounds the sum, and  *)
(* the formats print the binary value ('{:.2f}' and '{:.3f}' rounded,      *)
(* '{0}' and str() as the shortest decimal that reads back).               *)
(***************************************************************************)
EXTENDS Integers, Sequences, FiniteSets, TLC

VARIABLES
    \* configuration (module globals of genstrokes.py)
    boxes_per_line, kanjivg_width, kanjivg_height,
    \* shift_path applied as a function
    sp_d, sp_row, sp_col, sp_pc, sp_res,
    \* shift_transform applied as a function
    st_mat, st_row, st_col, st_pc, st_res,
    \* the file system: whether kanjivg is a directory; what is at output_dir,
    \* "dir", "file" or "absent"
    kanjivg_isdir, output_dir,
    \* gen_strokes / make_diagram
    files, cur, pc, glyph, paths, numbers, base, sn_base, i, j,
    cur_row, cur_col, attrib, written, outcome

cfgvars == <<boxes_per_line, kanjivg_width, kanjivg_height>>
spvars == <<sp_d, sp_row, sp_col, sp_pc, sp_res>>
stvars == <<st_mat, st_row, st_col, st_pc, st_res>>
genvars == <<files, cur, pc, glyph, paths, numbers, base, sn_base, i, j,
             cur_row, cur_col, attrib, written, outcome>>
fsvars == <<kanjivg_isdir, output_dir>>
vars == <<cfgvars, fsvars, spvars, stvars, genvars>>

----------------------------------------------------------------------------
(* Program constants as shipped.                                           *)
DefaultBoxesPerLine == 6
DefaultWidth == 109
DefaultHeight == 109

(* Bounds of the model.                                                    *)
MaxRuns == 2
MaxStrokes == 6
MaxBoxes == 3
MaxFiles == 2

\* A cell height that differs from the cell width.
AltHeight == DefaultHeight - 9

----------------------------------------------------------------------------
(* Characters and Python string primitives.                                *)
Upper == {"A","B","C","D","E","F","G","H","I","J","K","L","M",
          "N","O","P","Q","R","S","T","U","V","W","X","Y","Z"}
Lower == {"a","b","c","d","e","f","g","h","i","j","k","l","m",
          "n","o","p","q","r","s","t","u","v","w","x","y","z"}
Digit == {"0","1","2","3","4","5","6","7","8","9"}
PayloadCh == Digit \cup {".", ",", "-"}

DigitVal(c) ==
    CASE c = "0" -> 0 [] c = "1" -> 1 [] c = "2" -> 2 [] c = "3" -> 3
      [] c = "4" -> 4 [] c = "5" -> 5 [] c = "6" -> 6 [] c = "7" -> 7
      [] c = "8" -> 8 [] c = "9" -> 9

DigitCh(n) == <<"0","1","2","3","4","5","6","7","8","9">>[n + 1]

Min(a, b) == IF a < b THEN a ELSE b
Max(a, b) == IF a > b THEN a ELSE b
Abs(a) == IF a < 0 THEN -a ELSE a

\* Python s[a:b] with 0-based, possibly negative or out-of-range indices.
Slice(s, a, b) ==
    LET n == Len(s)
        lo == IF a < 0 THEN Max(a + n, 0) ELSE Min(a, n)
        hi == IF b < 0 THEN Max(b + n, 0) ELSE Min(b, n)
    IN  IF lo >= hi THEN <<>> ELSE SubSeq(s, lo + 1, hi)

\* Python s[a:]
SliceFrom(s, a) == Slice(s, a, Len(s))

\* Python sep.join(ss)
RECURSIVE Join(_, _)
Join(ss, sep) ==
    IF ss = <<>> THEN <<>>
    ELSE IF Len(ss) = 1 THEN ss[1]
    ELSE ss[1] \o sep \o Join(Tail(ss), sep)

\* Python s.split(c) for a one-character separator: always at least one item.
RECURSIVE SplitAcc(_, _, _, _)
SplitAcc(s, c, k, acc) ==
    IF k > Len(s) THEN <<acc>>
    ELSE IF s[k] = c THEN <<acc>> \o SplitAcc(s, c, k + 1, <<>>)
    ELSE SplitAcc(s, c, k + 1, Append(acc, s[k]))

Split(s, c) == SplitAcc(s, c, 1, <<>>)

----------------------------------------------------------------------------
(* Natural numbers of any size, for the exact value of a Python float:     *)
(* little-endian sequences of limbs below Base without high zero limbs     *)
(* (zero is <<>>).  Carries run through a range of limbs by halves.        *)
Base == 2^15

SetMax(S) == CHOOSE k \in S : \A n \in S : n <= k
SetMin(S) == CHOOSE k \in S : \A n \in S : k <= n

BTrim(a) ==
    LET nz == {k \in 1..Len(a) : a[k] # 0}
    IN  IF nz = {} THEN <<>> ELSE SubSeq(a, 1, SetMax(nz))

RECURSIVE BFromInt(_)
BFromInt(n) == IF n = 0 THEN <<>> ELSE <<n % Base>> \o BFromInt(n \div Base)

\* a * c + carry over the limbs lo..hi of a, 0 <= c < Base: the limbs s of
\* the result and the carry c out of them
RECURSIVE BMulRange(_, _, _, _, _)
BMulRange(a, c, lo, hi, carry) ==
    IF lo = hi THEN LET t == a[lo] * c + carry
                    IN  [s |-> <<t % Base>>, c |-> t \div Base]
    ELSE LET mid == (lo + hi) \div 2
             low == BMulRange(a, c, lo, mid, carry)
             high == BMulRange(a, c, mid + 1, hi, low.c)
         IN  [s |-> low.s \o high.s, c |-> high.c]

\* The limbs r.s with the carry r.c out of them on top
WithCarry(r) == IF r.c = 0 THEN r.s ELSE Append(r.s, r.c)

BMulSmall(a, c) ==
    IF a = <<>> \/ c = 0 THEN <<>> ELSE WithCarry(BMulRange(a, c, 1, Len(a), 0))

Limb(a, k) == IF k <= Len(a) THEN a[k] ELSE 0

\* a + b + carry over the limbs lo..hi
RECURSIVE BAddRange(_, _, _, _, _)
BAddRange(a, b, lo, hi, carry) ==
    IF lo = hi THEN LET t == Limb(a, lo) + Limb(b, lo) + carry
                    IN  [s |-> <<t % Base>>, c |-> t \div Base]
    ELSE LET mid == (lo + hi) \div 2
             low == BAddRange(a, b, lo, mid, carry)
             high == BAddRange(a, b, mid + 1, hi, low.c)
         IN  [s |-> low.s \o high.s, c |-> high.c]

BAdd(a, b) ==
    IF a = <<>> THEN b
    ELSE IF b = <<>> THEN a
    ELSE WithCarry(BAddRange(a, b, 1, Max(Len(a), Len(b)), 0))

\* a + c for 0 <= c < Base
BAddC(a, c) == IF c = 0 THEN a ELSE BAdd(a, <<c>>)

\* a - b - borrow over the limbs lo..hi, c the borrow out of them
RECURSIVE BSubRange(_, _, _, _, _)
BSubRange(a, b, lo, hi, borrow) ==
    IF lo = hi THEN LET t == Limb(a, lo) - Limb(b, lo) - borrow
                    IN  [s |-> <<t % Base>>, c |-> IF t < 0 THEN 1 ELSE 0]
    ELSE LET mid == (lo + hi) \div 2
             low == BSubRange(a, b, lo, mid, borrow)
             high == BSubRange(a, b, mid + 1, hi, low.c)
         IN  [s |-> low.s \o high.s, c |-> high.c]

\* a - b for a >= b
BSub(a, b) == IF b = <<>> THEN a ELSE BTrim(BSubRange(a, b, 1, Len(a), 0).s)

\* -1, 0, 1 as a < b, a = b, a > b
BCmp(a, b) ==
    IF Len(a) < Len(b) THEN -1
    ELSE IF Len(a) > Len(b) THEN 1
    ELSE LET diff == {k \in 1..Len(a) : a[k] # b[k]}
         IN  IF diff = {} THEN 0
             ELSE IF a[SetMax(diff)] < b[SetMax(diff)] THEN -1 ELSE 1

\* The limbs lo..hi of a with rem above them, divided by c, 0 < c < Base:
\* the limbs q of the quotient, the highest first, and the remainder r
RECURSIVE BDivRange(_, _, _, _, _)
BDivRange(a, c, lo, hi, rem) ==
    IF lo = hi THEN LET now == rem * Base + a[lo]
                    IN  [q |-> <<now \div c>>, r |-> now % c]
    ELSE LET mid == (lo + hi) \div 2
             high == BDivRange(a, c, mid + 1, hi, rem)
             low == BDivRange(a, c, lo, mid, high.r)
         IN  [q |-> high.q \o low.q, r |-> low.r]

Reverse(s) == [k \in 1..Len(s) |-> s[Len(s) + 1 - k]]

\* The quotient d.q with its lowest limb first
Quotient(d) == [q |-> BTrim(Reverse(d.q)), r |-> d.r]

BDivSmall(a, c) ==
    IF a = <<>> THEN [q |-> <<>>, r |-> 0]
    ELSE Quotient(BDivRange(a, c, 1, Len(a), 0))

RECURSIVE BitLenSmall(_)
BitLenSmall(n) == IF n = 0 THEN 0 ELSE 1 + BitLenSmall(n \div 2)

BBitLen(a) == IF a = <<>> THEN 0 ELSE (Len(a) - 1) * 15 + BitLenSmall(a[Len(a)])

BOdd(a) == a # <<>> /\ a[1] % 2 = 1

\* a * 2^n
BShl(a, n) ==
    IF a = <<>> THEN <<>>
    ELSE [k \in 1..(n \div 15) |-> 0] \o BMulSmall(a, 2^(n % 15))

\* floor(a / 2^n), and whether anything was cut off
\* A quotient d, with whether its remainder or an earlier one was not 0
CutOf(d, sticky) == [q |-> d.q, sticky |-> d.r # 0 \/ sticky]

BShrCut(a, n) ==
    IF n \div 15 >= Len(a) THEN [q |-> <<>>, sticky |-> a # <<>>]
    ELSE CutOf(BDivSmall(SubSeq(a, n \div 15 + 1, Len(a)), 2^(n % 15)),
               \E k \in 1..(n \div 15) : a[k] # 0)

BShr(a, n) == BShrCut(a, n).q

\* a * 10^k
RECURSIVE BMulPow10(_, _)
BMulPow10(a, k) ==
    IF k <= 4 THEN BMulSmall(a, 10^k)
    ELSE LET half == BMulPow10(a, k \div 2)
         IN  IF half = <<>> THEN <<>> ELSE BMulPow10(half, k - k \div 2)

\* floor(a / 10^k), and whether anything was cut off
RECURSIVE BDivPow10(_, _)
BDivPow10(a, k) ==
    IF k <= 4 THEN CutOf(BDivSmall(a, 10^k), FALSE)
    ELSE LET half == BDivPow10(a, k \div 2)
             rest == BDivPow10(half.q, k - k \div 2)
         IN  IF half.q = <<>> THEN half
             ELSE [q |-> rest.q, sticky |-> half.sticky \/ rest.sticky]

\* A cut d, with whether it or an earlier cut dropped anything
CutAgain(d, sticky) == [q |-> d.q, sticky |-> d.sticky \/ sticky]

\* s.q / 10^k cut to an integer, s the result of an earlier cut
CutPow10(s, k) == CutAgain(BDivPow10(s.q, k), s.sticky)

\* The four decimal digits of r < 10^4
Four(r) == <<r \div 1000, (r \div 100) % 10, (r \div 10) % 10, r % 10>>

\* The decimal digits of a as numbers, most significant first, sixteen at
\* a time with leading zeros; <<>> for zero
RECURSIVE BDigitsRec(_), BDigitsFour(_, _, _)
BDigitsRec(a) ==
    IF a = <<>> THEN <<>> ELSE BDigitsFour(BDivSmall(a, 10^4), 3, <<>>)

\* d.q and d.r are a quotient and remainder by 10^4, low the digits below
\* them, n the groups of four still to take before the next sixteen
BDigitsFour(d, n, low) ==
    IF n = 0 THEN BDigitsRec(d.q) \o Four(d.r) \o low
    ELSE BDigitsFour(BDivSmall(d.q, 10^4), n - 1, Four(d.r) \o low)

\* s without its leading zeros (0 or "0")
StripLeading(s, zero) ==
    LET nz == {k \in 1..Len(s) : s[k] # zero}
    IN  IF nz = {} THEN <<>> ELSE SubSeq(s, SetMin(nz), Len(s))

\* s without its trailing zeros
StripTrailing(s, zero) ==
    LET nz == {k \in 1..Len(s) : s[k] # zero}
    IN  IF nz = {} THEN <<>> ELSE SubSeq(s, 1, SetMax(nz))

BDigits(a) == StripLeading(BDigitsRec(a), 0)

DigitChars(ds) == [k \in 1..Len(ds) |-> DigitCh(ds[k])]

\* The number written by the digit characters lo..hi of s
RECURSIVE BFromDigits(_, _, _)
BFromDigits(s, lo, hi) ==
    IF lo > hi THEN <<>>
    ELSE IF lo = hi THEN BFromInt(DigitVal(s[lo]))
    ELSE LET mid == (lo + hi) \div 2
         IN  BAdd(BMulPow10(BFromDigits(s, lo, mid), hi - mid),
                  BFromDigits(s, mid + 1, hi))

----------------------------------------------------------------------------
(* Python floats: IEEE-754 binary64.  A finite value is                    *)
(* (-1)^neg * m * 2^e with m < 2^53; it is kept with 2^52 <= m when        *)
(* e > -1074, and zero has m = <<>> and e = 0, so equal floats are equal   *)
(* records (0.0 and -0.0 differ, as their str() does).                     *)
Nan == [kind |-> "nan", neg |-> FALSE, m |-> <<>>, e |-> 0]
Inf(neg) == [kind |-> "inf", neg |-> neg, m |-> <<>>, e |-> 0]
Zero(neg) == [kind |-> "fin", neg |-> neg, m |-> <<>>, e |-> 0]

\* The float (-1)^neg * m * 2^ex, m < 2^53: beyond the largest float it
\* is inf.
Finite(neg, m, ex) ==
    IF m = <<>> THEN Zero(neg)
    ELSE IF ex > 971 THEN Inf(neg)
    ELSE [kind |-> "fin", neg |-> neg, m |-> m, e |-> ex]

\* The same for m <= 2^53: rounding up may have carried into a 54th bit.
Normal(neg, m, ex) ==
    IF BBitLen(m) > 53 THEN Finite(neg, BShr(m, 1), ex + 1) ELSE Finite(neg, m, ex)

\* q + 1/2 (if half) + something smaller (if sticky), rounded to an
\* integer, ties to even.
RoundInt(q, half, sticky) ==
    IF half /\ (sticky \/ BOdd(q)) THEN BAddC(q, 1) ELSE q

\* r.q / 2, with something below it if r.sticky or sticky, rounded
RoundHalf(r, sticky) == RoundInt(BShr(r.q, 1), BOdd(r.q), sticky \/ r.sticky)

\* The float nearest to (-1)^neg * (q + rest) * 2^lsb, rest < 1 being
\* nonzero iff sticky; q has 55 bits or more, or lsb is below -1074.
RoundBits(neg, q, sticky, lsb) ==
    LET ex == Max(BBitLen(q) + lsb - 53, -1074)
    IN  Normal(neg, RoundHalf(BShrCut(q, ex - 1 - lsb), sticky), ex)

RoundCut(neg, cut, lsb) == RoundBits(neg, cut.q, cut.sticky, lsb)

\* The float nearest to (-1)^neg * (num.q + rest) * 2^lsb / 10^k10
DivideRound(neg, num, lsb, k10) == RoundCut(neg, CutPow10(num, k10), lsb)

\* n * 2^s cut to an integer
ShiftCut(n, s) ==
    IF s >= 0 THEN [q |-> BShl(n, s), sticky |-> FALSE] ELSE BShrCut(n, -s)

\* The float nearest to (-1)^neg * n * 2^p2 / 10^k10, ties to even: n is
\* scaled by 2^s so that the quotient by 10^k10 has 55 bits or more.
ToDoubleAt(neg, n, p2, k10, s) == DivideRound(neg, ShiftCut(n, s), p2 - s, k10)

ToDouble(neg, n, p2, k10) ==
    IF n = <<>> THEN Zero(neg)
    ELSE ToDoubleAt(neg, n, p2, k10, 58 + (k10 * 3322) \div 1000 - BBitLen(n))

\* (-1)^xneg * a + (-1)^nneg * b, in units of 2^-t, as a float
AddMag(xneg, nneg, a, b, t) ==
    LET c == BCmp(a, b)
    IN  ToDouble(IF xneg = nneg \/ c > 0 THEN xneg ELSE c < 0 /\ nneg,
                 IF xneg = nneg THEN BAdd(a, b)
                 ELSE IF c >= 0 THEN BSub(a, b) ELSE BSub(b, a),
                 -t, 0)

\* float + int (the int converts to a float exactly)
FloatAdd(x, n) ==
    IF x.kind # "fin" THEN x
    ELSE AddMag(x.neg, n < 0,
                IF x.e > 0 THEN BShl(x.m, x.e) ELSE x.m,
                BShl(BFromInt(Abs(n)), Max(-x.e, 0)),
                Max(-x.e, 0))

----------------------------------------------------------------------------
(* float(s), str(n), and the formats '{:.2f}', '{:.3f}' and '{0}'.         *)

\* A character TLC cannot write in a string is named by its code point,
\* "U+00A0": one element of a string, like any other character.

\* Characters float() drops at both ends: those of Py_UNICODE_ISSPACE above
\* ASCII, which it first turns into ' ', and those of Py_ISSPACE.
WhiteSpace ==
    { " ", "\t", "\n", "\r", "\f",
      "U+000B", "U+0085", "U+00A0", "U+1680", "U+2000", "U+2001", "U+2002",
      "U+2003", "U+2004", "U+2005", "U+2006", "U+2007", "U+2008", "U+2009",
      "U+200A", "U+2028", "U+2029", "U+202F", "U+205F", "U+3000" }

\* The decimal digits float() reads, by value: DecimalChars[v + 1] holds the
\* characters of value v (Py_UNICODE_TODECIMAL, Unicode 14.0).
DecimalChars ==
    << { "0",
         "U+0660", "U+06F0", "U+07C0", "U+0966", "U+09E6", "U+0A66",
         "U+0AE6", "U+0B66", "U+0BE6", "U+0C66", "U+0CE6", "U+0D66",
         "U+0DE6", "U+0E50", "U+0ED0", "U+0F20", "U+1040", "U+1090",
         "U+17E0", "U+1810", "U+1946", "U+19D0", "U+1A80", "U+1A90",
         "U+1B50", "U+1BB0", "U+1C40", "U+1C50", "U+A620", "U+A8D0",
         "U+A900", "U+A9D0", "U+A9F0", "U+AA50", "U+ABF0", "U+FF10",
         "U+104A0", "U+10D30", "U+11066", "U+110F0", "U+11136", "U+111D0",
         "U+112F0", "U+11450", "U+114D0", "U+11650", "U+116C0", "U+11730",
         "U+118E0", "U+11950", "U+11C50", "U+11D50", "U+11DA0", "U+16A60",
         "U+16AC0", "U+16B50", "U+1D7CE", "U+1D7D8", "U+1D7E2", "U+1D7EC",
         "U+1D7F6", "U+1E140", "U+1E2F0", "U+1E950", "U+1FBF0" },
       { "1",
         "U+0661", "U+06F1", "U+07C1", "U+0967", "U+09E7", "U+0A67",
         "U+0AE7", "U+0B67", "U+0BE7", "U+0C67", "U+0CE7", "U+0D67",
         "U+0DE7", "U+0E51", "U+0ED1", "U+0F21", "U+1041", "U+1091",
         "U+17E1", "U+1811", "U+1947", "U+19D1", "U+1A81", "U+1A91",
         "U+1B51", "U+1BB1", "U+1C41", "U+1C51", "U+A621", "U+A8D1",
         "U+A901", "U+A9D1", "U+A9F1", "U+AA51", "U+ABF1", "U+FF11",
         "U+104A1", "U+10D31", "U+11067", "U+110F1", "U+11137", "U+111D1",
         "U+112F1", "U+11451", "U+114D1", "U+11651", "U+116C1", "U+11731",
         "U+118E1", "U+11951", "U+11C51", "U+11D51", "U+11DA1", "U+16A61",
         "U+16AC1", "U+16B51", "U+1D7CF", "U+1D7D9", "U+1D7E3", "U+1D7ED",
         "U+1D7F7", "U+1E141", "U+1E2F1", "U+1E951", "U+1FBF1" },
       { "2",
         "U+0662", "U+06F2", "U+07C2", "U+0968", "U+09E8", "U+0A68",
         "U+0AE8", "U+0B68", "U+0BE8", "U+0C68", "U+0CE8", "U+0D68",
         "U+0DE8", "U+0E52", "U+0ED2", "U+0F22", "U+1042", "U+1092",
         "U+17E2", "U+1812", "U+1948", "U+19D2", "U+1A82", "U+1A92",
         "U+1B52", "U+1BB2", "U+1C42", "U+1C52", "U+A622", "U+A8D2",
         "U+A902", "U+A9D2", "U+A9F2", "U+AA52", "U+ABF2", "U+FF12",
         "U+104A2", "U+10D32", "U+11068", "U+110F2", "U+11138", "U+111D2",
         "U+112F2", "U+11452", "U+114D2", "U+11652", "U+116C2", "U+11732",
         "U+118E2", "U+11952", "U+11C52", "U+11D52", "U+11DA2", "U+16A62",
         "U+16AC2", "U+16B52", "U+1D7D0", "U+1D7DA", "U+1D7E4", "U+1D7EE",
         "U+1D7F8", "U+1E142", "U+1E2F2", "U+1E952", "U+1FBF2" },
       { "3",
         "U+0663", "U+06F3", "U+07C3", "U+0969", "U+09E9", "U+0A69",
         "U+0AE9", "U+0B69", "U+0BE9", "U+0C69", "U+0CE9", "U+0D69",
         "U+0DE9", "U+0E53", "U+0ED3", "U+0F23", "U+1043", "U+1093",
         "U+17E3", "U+1813", "U+1949", "U+19D3", "U+1A83", "U+1A93",
         "U+1B53", "U+1BB3", "U+1C43", "U+1C53", "U+A623", "U+A8D3",
         "U+A903", "U+A9D3", "U+A9F3", "U+AA53", "U+ABF3", "U+FF13",
         "U+104A3", "U+10D33", "U+11069", "U+110F3", "U+11139", "U+111D3",
         "U+112F3", "U+11453", "U+114D3", "U+11653", "U+116C3", "U+11733",
         "U+118E3", "U+11953", "U+11C53", "U+11D53", "U+11DA3", "U+16A63",
         "U+16AC3", "U+16B53", "U+1D7D1", "U+1D7DB", "U+1D7E5", "U+1D7EF",
         "U+1D7F9", "U+1E143", "U+1E2F3", "U+1E953", "U+1FBF3" },
       { "4",
         "U+0664", "U+06F4", "U+07C4", "U+096A", "U+09EA", "U+0A6A",
         "U+0AEA", "U+0B6A", "U+0BEA", "U+0C6A", "U+0CEA", "U+0D6A",
         "U+0DEA", "U+0E54", "U+0ED4", "U+0F24", "U+1044", "U+1094",
         "U+17E4", "U+1814", "U+194A", "U+19D4", "U+1A84", "U+1A94",
         "U+1B54", "U+1BB4", "U+1C44", "U+1C54", "U+A624", "U+A8D4",
         "U+A904", "U+A9D4", "U+A9F4", "U+AA54", "U+ABF4", "U+FF14",
         "U+104A4", "U+10D34", "U+1106A", "U+110F4", "U+1113A", "U+111D4",
         "U+112F4", "U+11454", "U+114D4", "U+11654", "U+116C4", "U+11734",
         "U+118E4", "U+11954", "U+11C54", "U+11D54", "U+11DA4", "U+16A64",
         "U+16AC4", "U+16B54", "U+1D7D2", "U+1D7DC", "U+1D7E6", "U+1D7F0",
         "U+1D7FA", "U+1E144", "U+1E2F4", "U+1E954", "U+1FBF4" },
       { "5",
         "U+0665", "U+06F5", "U+07C5", "U+096B", "U+09EB", "U+0A6B",
         "U+0AEB", "U+0B6B", "U+0BEB", "U+0C6B", "U+0CEB", "U+0D6B",
         "U+0DEB", "U+0E55", "U+0ED5", "U+0F25", "U+1045", "U+1095",
         "U+17E5", "U+1815", "U+194B", "U+19D5", "U+1A85", "U+1A95",
         "U+1B55", "U+1BB5", "U+1C45", "U+1C55", "U+A625", "U+A8D5",
         "U+A905", "U+A9D5", "U+A9F5", "U+AA55", "U+ABF5", "U+FF15",
         "U+104A5", "U+10D35", "U+1106B", "U+110F5", "U+1113B", "U+111D5",
         "U+112F5", "U+11455", "U+114D5", "U+11655", "U+116C5", "U+11735",
         "U+118E5", "U+11955", "U+11C55", "U+11D55", "U+11DA5", "U+16A65",
         "U+16AC5", "U+16B55", "U+1D7D3", "U+1D7DD", "U+1D7E7", "U+1D7F1",
         "U+1D7FB", "U+1E145", "U+1E2F5", "U+1E955", "U+1FBF5" },
       { "6",
         "U+0666", "U+06F6", "U+07C6", "U+096C", "U+09EC", "U+0A6C",
         "U+0AEC", "U+0B6C", "U+0BEC", "U+0C6C", "U+0CEC", "U+0D6C",
         "U+0DEC", "U+0E56", "U+0ED6", "U+0F26", "U+1046", "U+1096",
         "U+17E6", "U+1816", "U+194C", "U+19D6", "U+1A86", "U+1A96",
         "U+1B56", "U+1BB6", "U+1C46", "U+1C56", "U+A626", "U+A8D6",
         "U+A906", "U+A9D6", "U+A9F6", "U+AA56", "U+ABF6", "U+FF16",
         "U+104A6", "U+10D36", "U+1106C", "U+110F6", "U+1113C", "U+111D6",
         "U+112F6", "U+11456", "U+114D6", "U+11656", "U+116C6", "U+11736",
         "U+118E6", "U+11956", "U+11C56", "U+11D56", "U+11DA6", "U+16A66",
         "U+16AC6", "U+16B56", "U+1D7D4", "U+1D7DE", "U+1D7E8", "U+1D7F2",
         "U+1D7FC", "U+1E146", "U+1E2F6", "U+1E956", "U+1FBF6" },
       { "7",
         "U+0667", "U+06F7", "U+07C7", "U+096D", "U+09ED", "U+0A6D",
         "U+0AED", "U+0B6D", "U+0BED", "U+0C6D", "U+0CED", "U+0D6D",
         "U+0DED", "U+0E57", "U+0ED7", "U+0F27", "U+1047", "U+1097",
         "U+17E7", "U+1817", "U+194D", "U+19D7", "U+1A87", "U+1A97",
         "U+1B57", "U+1BB7", "U+1C47", "U+1C57", "U+A627", "U+A8D7",
         "U+A907", "U+A9D7", "U+A9F7", "U+AA57", "U+ABF7", "U+FF17",
         "U+104A7", "U+10D37", "U+1106D", "U+110F7", "U+1113D", "U+111D7",
         "U+112F7", "U+11457", "U+114D7", "U+11657", "U+116C7", "U+11737",
         "U+118E7", "U+11957", "U+11C57", "U+11D57", "U+11DA7", "U+16A67",
         "U+16AC7", "U+16B57", "U+1D7D5", "U+1D7DF", "U+1D7E9", "U+1D7F3",
         "U+1D7FD", "U+1E147", "U+1E2F7", "U+1E957", "U+1FBF7" },
       { "8",
         "U+0668", "U+06F8", "U+07C8", "U+096E", "U+09EE", "U+0A6E",
         "U+0AEE", "U+0B6E", "U+0BEE", "U+0C6E", "U+0CEE", "U+0D6E",
         "U+0DEE", "U+0E58", "U+0ED8", "U+0F28", "U+1048", "U+1098",
         "U+17E8", "U+1818", "U+194E", "U+19D8", "U+1A88", "U+1A98",
         "U+1B58", "U+1BB8", "U+1C48", "U+1C58", "U+A628", "U+A8D8",
         "U+A908", "U+A9D8", "U+A9F8", "U+AA58", "U+ABF8", "U+FF18",
         "U+104A8", "U+10D38", "U+1106E", "U+110F8", "U+1113E", "U+111D8",
         "U+112F8", "U+11458", "U+114D8", "U+11658", "U+116C8", "U+11738",
         "U+118E8", "U+11958", "U+11C58", "U+11D58", "U+11DA8", "U+16A68",
         "U+16AC8", "U+16B58", "U+1D7D6", "U+1D7E0", "U+1D7EA", "U+1D7F4",
         "U+1D7FE", "U+1E148", "U+1E2F8", "U+1E958", "U+1FBF8" },
       { "9",
         "U+0669", "U+06F9", "U+07C9", "U+096F", "U+09EF", "U+0A6F",
         "U+0AEF", "U+0B6F", "U+0BEF", "U+0C6F", "U+0CEF", "U+0D6F",
         "U+0DEF", "U+0E59", "U+0ED9", "U+0F29", "U+1049", "U+1099",
         "U+17E9", "U+1819", "U+194F", "U+19D9", "U+1A89", "U+1A99",
         "U+1B59", "U+1BB9", "U+1C49", "U+1C59", "U+A629", "U+A8D9",
         "U+A909", "U+A9D9", "U+A9F9", "U+AA59", "U+ABF9", "U+FF19",
         "U+104A9", "U+10D39", "U+1106F", "U+110F9", "U+1113F", "U+111D9",
         "U+112F9", "U+11459", "U+114D9", "U+11659", "U+116C9", "U+11739",
         "U+118E9", "U+11959", "U+11C59", "U+11D59", "U+11DA9", "U+16A69",
         "U+16AC9", "U+16B59", "U+1D7D7", "U+1D7E1", "U+1D7EB", "U+1D7F5",
         "U+1D7FF", "U+1E149", "U+1E2F9", "U+1E959", "U+1FBF9" } >>

DecimalDigit == UNION {DecimalChars[v] : v \in 1..10}
DecimalVal(c) == (CHOOSE v \in 1..10 : c \in DecimalChars[v]) - 1

\* _PyUnicode_TransformDecimalAndSpaceToASCII: white space becomes ' ', a
\* decimal digit the ASCII digit of its value; any other character stays
\* (float() reads none of them).
ToAscii(s) ==
    [k \in 1..Len(s) |->
        IF s[k] \in Digit THEN s[k]
        ELSE IF s[k] \in WhiteSpace THEN " "
        ELSE IF s[k] \in DecimalDigit THEN DigitCh(DecimalVal(s[k]))
        ELSE s[k]]

\* s without the spaces at its ends
Strip(s) ==
    LET ink == {k \in 1..Len(s) : s[k] # " "}
    IN  IF ink = {} THEN <<>> ELSE SubSeq(s, SetMin(ink), SetMax(ink))

LowerOf(c) ==
    CASE c = "I" -> "i" [] c = "N" -> "n" [] c = "F" -> "f" [] c = "T" -> "t"
      [] c = "Y" -> "y" [] c = "A" -> "a" [] c = "E" -> "e" [] OTHER -> c

\* The first index of c in s, or 0
IndexOf(s, c) ==
    LET at == {k \in 1..Len(s) : s[k] = c}
    IN  IF at = {} THEN 0 ELSE SetMin(at)

\* digits, single underscores allowed between two digits
IsDigitPart(s) ==
    /\ s # <<>>
    /\ s[1] \in Digit /\ s[Len(s)] \in Digit
    /\ \A k \in 1..Len(s) : s[k] \in Digit \cup {"_"}
    /\ \A k \in 1..(Len(s) - 1) : ~(s[k] = "_" /\ s[k + 1] = "_")

OnlyDigits(s) == SelectSeq(s, LAMBDA c : c \in Digit)

\* The pieces of a float literal: sign, integer part, fraction, exponent
LexemeRecord(neg, low, hasexp, pieces, ex) ==
    [neg |-> neg,
     word |-> low,
     dots |-> Len(pieces) - 1,
     ip |-> pieces[1],
     fp |-> IF Len(pieces) > 1 THEN pieces[2] ELSE <<>>,
     hasexp |-> hasexp,
     exneg |-> ex # <<>> /\ ex[1] = "-",
     exd |-> IF ex # <<>> /\ ex[1] \in {"+", "-"} THEN Tail(ex) ELSE ex]

LexemeAt(neg, body, low, epos) ==
    LexemeRecord(neg, low, epos # 0,
                 Split(IF epos = 0 THEN body ELSE SubSeq(body, 1, epos - 1), "."),
                 IF epos = 0 THEN <<>> ELSE SubSeq(body, epos + 1, Len(body)))

LexemeBody(neg, body) ==
    LET low == [k \in 1..Len(body) |-> LowerOf(body[k])]
    IN  LexemeAt(neg, body, low, IndexOf(low, "e"))

LexemeOf(t) ==
    LET signed == t # <<>> /\ t[1] \in {"+", "-"}
    IN  LexemeBody(signed /\ t[1] = "-", IF signed THEN Tail(t) ELSE t)

FloatLexeme(tok) == LexemeOf(Strip(ToAscii(tok)))

InfWords == {<<"i","n","f">>, <<"i","n","f","i","n","i","t","y">>}
NanWord == <<"n","a","n">>

\* The most digits strtod reads, leading zeros apart, and the most after
\* the point; the largest exponent it tells apart.
MaxDigits == 10^9
MaxAbsExp == 11 * 10^8

LexemeOk(x) ==
    \/ x.word \in InfWords \cup {NanWord}
    \/ /\ x.dots <= 1
       /\ x.ip = <<>> \/ IsDigitPart(x.ip)
       /\ x.fp = <<>> \/ IsDigitPart(x.fp)
       /\ x.ip # <<>> \/ x.fp # <<>>
       /\ x.hasexp => IsDigitPart(x.exd)
       /\ Len(StripLeading(OnlyDigits(x.ip) \o OnlyDigits(x.fp), "0")) <= MaxDigits
       /\ Len(OnlyDigits(x.fp)) <= MaxDigits

\* float(tok) succeeds
IsFloat(tok) == LexemeOk(FloatLexeme(tok))

\* the number written by the first k digit characters of s
RECURSIVE DigitsVal(_, _)
DigitsVal(s, k) ==
    IF k = 0 THEN 0 ELSE 10 * DigitsVal(s, k - 1) + DigitVal(s[k])

\* The exponent digits s as a number: with more than nine digits after the
\* leading zeros it counts as MaxAbsExp (strtod: s - s1 > 9).
ExpVal(s) ==
    LET sig == StripLeading(s, "0")
    IN  IF Len(sig) > 9 THEN MaxAbsExp ELSE DigitsVal(sig, Len(sig))

\* The float nearest to (-1)^neg * sig / 10^k10, sig a digit string without
\* leading zeros: beyond 10^310 it is inf, below 10^-330 zero.
Decimal(neg, sig, k10) ==
    IF sig = <<>> THEN Zero(neg)
    ELSE IF Len(sig) - k10 > 310 THEN Inf(neg)
    ELSE IF Len(sig) - k10 < -330 THEN Zero(neg)
    ELSE ToDouble(neg,
                  BMulPow10(BFromDigits(sig, 1, Len(sig)), Max(-k10, 0)),
                  0, Max(k10, 0))

\* The exponent written in a literal
LexemeExp(x) ==
    (IF x.exneg THEN -1 ELSE 1) * ExpVal(OnlyDigits(x.exd))

LexemeVal(x) ==
    IF x.word = NanWord THEN Nan
    ELSE IF x.word \in InfWords THEN Inf(x.neg)
    ELSE Decimal(x.neg,
                 StripLeading(OnlyDigits(x.ip) \o OnlyDigits(x.fp), "0"),
                 Len(OnlyDigits(x.fp)) - LexemeExp(x))

\* float(tok) for a tok with IsFloat(tok)
FloatVal(tok) == LexemeVal(FloatLexeme(tok))

RECURSIVE DigitsOf(_)
DigitsOf(n) ==
    IF n < 10 THEN <<DigitCh(n)>> ELSE DigitsOf(n \div 10) \o <<DigitCh(n % 10)>>

\* str(n) for an int
IntStr(n) == IF n < 0 THEN <<"-">> \o DigitsOf(-n) ELSE DigitsOf(n)

Zeros(n) == [k \in 1..n |-> "0"]

SignStr(x) == IF x.neg THEN <<"-">> ELSE <<>>

\* 'nan', 'inf', '-inf'
NonFiniteStr(x) ==
    IF x.kind = "nan" THEN NanWord ELSE SignStr(x) \o <<"i","n","f">>

\* a / 2^t rounded to an integer, ties to even
RoundShift(a, t) ==
    IF t <= 0 THEN BShl(a, -t) ELSE RoundHalf(BShrCut(a, t - 1), FALSE)

\* The digits p with a point before the last nd of them
Pointed(sign, p, nd) ==
    sign \o SubSeq(p, 1, Len(p) - nd) \o <<".">> \o SubSeq(p, Len(p) - nd + 1, Len(p))

\* The same for any digits ds, filled up to nd + 1 digits
FixedStr(sign, ds, nd) == Pointed(sign, Zeros(nd + 1 - Len(ds)) \o ds, nd)

\* '{:.<nd>f}'.format(x): the exact binary value rounded to nd decimals,
\* ties to even.
FmtFixed(x, nd) ==
    IF x.kind # "fin" THEN NonFiniteStr(x)
    ELSE FixedStr(SignStr(x),
                  DigitChars(BDigits(RoundShift(BMulPow10(x.m, nd), -x.e))), nd)

\* '{:.2f}'.format(x)
Fmt2(x) == FmtFixed(x, 2)

\* -1, 0, 1 for digit strings of one length
RECURSIVE DCmp(_, _, _)
DCmp(a, b, k) ==
    IF k > Len(a) THEN 0
    ELSE IF a[k] < b[k] THEN -1
    ELSE IF a[k] > b[k] THEN 1
    ELSE DCmp(a, b, k + 1)

\* The last position up to p that does not hold a 9 (position 1 is a spare
\* leading 0)
RECURSIVE CarryStop(_, _)
CarryStop(a, p) == IF a[p] = 9 THEN CarryStop(a, p - 1) ELSE p

\* A digit string plus one at position p
DIncr(a, p) ==
    LET stop == CarryStop(a, p)
    IN  [k \in 1..Len(a) |->
            IF k = stop THEN a[k] + 1
            ELSE IF k > stop /\ k <= p THEN 0 ELSE a[k]]


\* floor(n * 2^b * 10^p10), and whether anything was cut off
Scaled(n, b, p10) ==
    CutPow10(ShiftCut(IF p10 > 0 THEN BMulPow10(n, p10) ELSE n, b), Max(-p10, 0))

\* The shortest digit string that float() reads back as x, the nearest to
\* x among the shortest.  v, lo and hi are x and the two ends of the
\* interval that rounds to x, as [d |-> digits, more |-> a remainder was cut
\* off], the digits of one length with a spare leading 0; incl tells that
\* the ends themselves round to x.  The candidates with p significant
\* digits are x cut after p digits, and that plus one in the last place.
RECURSIVE ShortestFrom(_, _, _, _, _)
ShortestFrom(v, lo, hi, incl, p) ==
    LET n == Len(v.d)
        down == [k \in 1..n |-> IF k <= p + 1 THEN v.d[k] ELSE 0]
        up == DIncr(down, p + 1)
        above(cand) == LET c == DCmp(lo.d, cand, 1)
                       IN  c < 0 \/ (c = 0 /\ incl /\ ~lo.more)
        below(cand) == LET c == DCmp(cand, hi.d, 1)
                       IN  c < 0 \/ (c = 0 /\ (incl \/ hi.more))
        half == [k \in 1..n |-> IF k = p + 2 THEN 5 ELSE 0]
        rest == [k \in 1..n |-> IF k <= p + 1 THEN 0 ELSE v.d[k]]
        side == DCmp(rest, half, 1)
        nearer == IF side < 0 THEN down
                  ELSE IF side > 0 \/ v.more THEN up
                  ELSE IF v.d[p + 1] % 2 = 0 THEN down ELSE up
        upin == below(up)
    IN  IF p = 17 \/ (above(down) /\ upin) THEN nearer
        ELSE IF above(down) THEN down
        ELSE IF upin THEN up
        ELSE ShortestFrom(v, lo, hi, incl, p + 1)

\* repr(x) from its digits ds and the position decpt of the decimal point:
\* exponent notation when decpt > 16 or decpt < -3.
ReprStr(ds, decpt) ==
    IF decpt > 16 \/ decpt < -3
    THEN LET ex == decpt - 1
         IN  <<ds[1]>> \o (IF Len(ds) > 1 THEN <<".">> \o Tail(ds) ELSE <<>>)
                 \o <<"e", IF ex < 0 THEN "-" ELSE "+">>
                 \o (IF Abs(ex) < 10 THEN <<"0">> ELSE <<>>) \o DigitsOf(Abs(ex))
    ELSE IF decpt <= 0 THEN <<"0", ".">> \o Zeros(-decpt) \o ds
    ELSE IF decpt >= Len(ds) THEN ds \o Zeros(decpt - Len(ds)) \o <<".", "0">>
    ELSE SubSeq(ds, 1, decpt) \o <<".">> \o SubSeq(ds, decpt + 1, Len(ds))

\* The digits of y.q filled up to n digits, with y.sticky
Padded(ds, more, n) == [d |-> [k \in 1..(n - Len(ds)) |-> 0] \o ds, more |-> more]
Form(y, n) == Padded(BDigits(y.q), y.sticky, n)

\* The digits c in units of 10^-p10, as repr writes them
ReprDigits(sign, c, p10) ==
    sign \o ReprStr(DigitChars(StripTrailing(c, 0)), Len(c) - p10)

ReprPadded(x, v, lo, hi, n, p10) ==
    ReprDigits(SignStr(x),
               StripLeading(ShortestFrom(Form(v, n), Form(lo, n), Form(hi, n),
                                         ~BOdd(x.m), 1), 0),
               p10)

\* x = m4 / 4 * 2^x.e; the interval that rounds to x ends half-way to the
\* neighbouring floats, the lower neighbour being nearer at a power of two.
ReprAmong(x, v, lo, hi, p10) == ReprPadded(x, v, lo, hi, Len(BDigits(v.q)) + 1, p10)

ReprScaled(x, m4, p10) ==
    ReprAmong(x,
              Scaled(m4, x.e - 2, p10),
              Scaled(BSub(m4, IF BShl(<<1>>, 52) = x.m /\ x.e > -1074
                              THEN <<1>> ELSE <<2>>), x.e - 2, p10),
              Scaled(BAddC(m4, 2), x.e - 2, p10),
              p10)

\* '{0}'.format(x) and str(x) of a float: repr(x).  The digits are taken
\* in units of 10^-p10, where x has 18 to 20 digits before the point.
FloatStr(x) ==
    IF x.kind # "fin" THEN NonFiniteStr(x)
    ELSE IF x.m = <<>> THEN SignStr(x) \o <<"0", ".", "0">>
    ELSE ReprScaled(x, BMulSmall(x.m, 4),
                    18 - ((BBitLen(x.m) + x.e - 1) * 30103) \div 10^5)

\* str(None)
NoneStr == <<"N","o","n","e">>

----------------------------------------------------------------------------
(* caps_re.finditer(d): every match of [A-Z][0-9.,-]* from left to right,  *)
(* as 0-based [start, end).  Characters no match covers are skipped.       *)

RECURSIVE PayloadEnd(_, _)
PayloadEnd(d, k) ==
    IF k <= Len(d) /\ d[k] \in PayloadCh THEN PayloadEnd(d, k + 1) ELSE k

RECURSIVE ScanFrom(_, _)
ScanFrom(d, k) ==
    IF k > Len(d) THEN <<>>
    ELSE IF d[k] \in Upper
         THEN LET e == PayloadEnd(d, k + 1)
              IN  <<[start |-> k - 1, end |-> e - 1]>> \o ScanFrom(d, e)
         ELSE ScanFrom(d, k + 1)

caps_re_finditer(d) == ScanFrom(d, 1)

----------------------------------------------------------------------------
(* shift_path                                                              *)

\* The result of a call: err is a raised ValueError; first is <<>> for
\* first_x = first_y = None and <<first_x, first_y>> otherwise.
PathErr == [err |-> TRUE, d |-> <<>>, first |-> <<>>]

\* [float(x) for x in s[1:].split(',')] succeeds
PartsOk(s) ==
    LET toks == Split(Tail(s), ",")
    IN  \A k \in 1..Len(toks) : IsFloat(toks[k])

PartsOf(s) ==
    LET toks == Split(Tail(s), ",")
    IN  [k \in 1..Len(toks) |-> FloatVal(toks[k])]

\* parts[i] += x_shift / y_shift over groups of g values: even offsets are
\* x-coordinates, odd offsets y-coordinates.
ShiftParts(parts, x_shift, y_shift) ==
    [k \in 1..Len(parts) |->
        FloatAdd(parts[k], IF k % 2 = 1 THEN x_shift ELSE y_shift)]

\* 'C' followed by '{0:.2f},...,{5:.2f}' per group of six, with nothing
\* between the groups.
RECURSIVE FormatC(_, _)
FormatC(parts, k) ==
    IF k > Len(parts) THEN <<>>
    ELSE Join([n \in 1..6 |-> Fmt2(parts[k + n - 1])], <<",">>) \o FormatC(parts, k + 6)

\* 'S' followed by '{0:.2f},{1:.2f},{2:.2f},{3:.3f}' per group of four.
RECURSIVE FormatS(_, _)
FormatS(parts, k) ==
    IF k > Len(parts) THEN <<>>
    ELSE Join([n \in 1..4 |-> FmtFixed(parts[k + n - 1], IF n = 4 THEN 3 ELSE 2)],
              <<",">>) \o FormatS(parts, k + 4)

\* A bug the last branch could have: the run is kept as it is.
UnsupportedRunKept(s) == s

\* else: raise ValueError(d)
UnsupportedRun(s) == <<>>

\* The text of a run from its letter and its shifted numbers, <<>> when
\* their count raises.
FormatRun(letter, parts) ==
    CASE letter = "M" ->
           IF Len(parts) # 2 THEN <<>>
           ELSE <<"M">> \o Join([n \in 1..2 |-> FloatStr(parts[n])], <<",">>)
      [] letter = "C" ->
           IF Len(parts) % 6 # 0 THEN <<>>
           ELSE <<"C">> \o FormatC(parts, 1)
      [] letter = "S" ->
           IF Len(parts) % 4 # 0 THEN <<>>
           ELSE <<"S">> \o FormatS(parts, 1)

\* The replacement text of one matched run s, or <<>> when the run raises
\* (a replacement always starts with its letter, so it is never empty).
RewriteRun(s, x_shift, y_shift) ==
    IF s[1] \notin {"M", "C", "S"} THEN UnsupportedRun(s)
    ELSE IF ~PartsOk(s) THEN <<>>
    ELSE FormatRun(s[1], ShiftParts(PartsOf(s), x_shift, y_shift))

\* pos_shift = len(d) - orig_len
PosShift(d, orig_len) == Len(d) - orig_len

\* A bug the start point could have: every M overwrites it.
FirstPointLast(first, p) == <<p[1], p[2]>>

\* if first_x is None: first_x = start_x; first_y = start_y (p holds
\* start_x and start_y)
FirstPoint(first, p) == IF first = <<>> THEN <<p[1], p[2]>> ELSE first

\* The for loop over the matches, from match k on: d is the string as
\* rewritten so far, ms the matches found in the original string orig.
\* shift_path_body is one iteration, for the run s = m.group() and its
\* replacement text new.
RECURSIVE shift_path_loop(_, _, _, _, _, _, _, _)
RECURSIVE shift_path_body(_, _, _, _, _, _, _, _, _, _)
shift_path_loop(orig, ms, k, d, pos_shift, first, x_shift, y_shift) ==
    IF k > Len(ms) THEN [err |-> FALSE, d |-> d, first |-> first]
    ELSE LET s == Slice(orig, ms[k].start, ms[k].end)
         IN  shift_path_body(orig, ms, k, d, pos_shift, first, x_shift, y_shift,
                             s, RewriteRun(s, x_shift, y_shift))

shift_path_body(orig, ms, k, d, pos_shift, first, x_shift, y_shift, s, new) ==
    LET start == ms[k].start + pos_shift
        end == ms[k].end + pos_shift
        nd == Slice(d, 0, start) \o new \o SliceFrom(d, end)
        nfirst == IF s[1] = "M"
                  THEN FirstPoint(first, ShiftParts(PartsOf(s), x_shift, y_shift))
                  ELSE first
    IN  IF new = <<>> THEN PathErr
        ELSE shift_path_loop(orig, ms, k + 1, nd, PosShift(nd, Len(orig)),
                             nfirst, x_shift, y_shift)

\* shift_path(d, row, col): x_shift = col * kanjivg_width,
\* y_shift = row * kanjivg_height.
shift_path(d, row, col) ==
    shift_path_loop(d, caps_re_finditer(d), 1, d, 0, <<>>,
                    col * kanjivg_width, row * kanjivg_height)

----------------------------------------------------------------------------
(* shift_transform                                                         *)

TransformPrefix == <<"m","a","t","r","i","x","(","1"," ","0"," ","0"," ","1"," ">>

\* The result of a call: status is "ok" or the exception raised.
shift_transform(mat, row, col) ==
    LET parts == Split(Slice(mat, 7, -1), " ")
    IN  IF Len(parts) < 5 THEN [status |-> "IndexError", mat |-> <<>>]
        ELSE IF ~IsFloat(parts[5]) THEN [status |-> "ValueError", mat |-> <<>>]
        ELSE IF Len(parts) < 6 THEN [status |-> "IndexError", mat |-> <<>>]
        ELSE IF ~IsFloat(parts[6]) THEN [status |-> "ValueError", mat |-> <<>>]
        ELSE LET e == FloatAdd(FloatVal(parts[5]), col * kanjivg_width)
                 f == FloatAdd(FloatVal(parts[6]), row * kanjivg_width)
             IN  [status |-> "ok",
                  mat |-> TransformPrefix \o Fmt2(e) \o <<" ">> \o Fmt2(f) \o <<")">>]

----------------------------------------------------------------------------
(* Inputs of the function-level specifications.                            *)

TokPool ==
    << <<"1">>, <<"2","0">>, <<"-","3",".","5">>, <<"9","9",".","9","5">>,
       <<"0",".","2","5">>, <<"7",".">>,
       <<"8",".","0","4">>,             \* 8.04 + 109 is 117.03999999999999
       <<"2",".","6","7","5">>,         \* the float below 2.675: 2.67 to two places
       <<"0",".","0","0","0","5">> >>   \* the float above 0.0005: 0.001 to three

\* n tokens of the pool, starting at offset off.
Toks(n, off) == [k \in 1..n |-> TokPool[((off + k - 1) % Len(TokPool)) + 1]]

Run(letter, n, off) == <<letter>> \o Join(Toks(n, off), <<",">>)

RunPool ==
    { Run("M", 2, 0),          \* M1,20
      Run("M", 2, 6),          \* M8.04,2.675
      Run("C", 6, 2),          \* one cubic group, -3.5 to 2.675
      Run("C", 12, 3),         \* two cubic groups
      Run("S", 4, 5),          \* one smooth group, S7.,8.04,2.675,0.0005
      Run("c", 6, 0),          \* lowercase (relative) run
      Run("Z", 0, 0),          \* unsupported capital
      Run("C", 5, 0),          \* five numbers
      Run("M", 1, 0),          \* one number
      <<" ">> }                \* a separator no match covers

RECURSIVE PathsOfLen(_)
PathsOfLen(n) ==
    IF n = 0 THEN {<<>>}
    ELSE {p \o r : p \in PathsOfLen(n - 1), r \in RunPool}

PathInputs == UNION {PathsOfLen(n) : n \in 1..MaxRuns}

\* (row, col, cell width, cell height) of the calls examined.
CallPanels ==
    { <<0, 0, DefaultWidth, DefaultHeight>>,
      <<1, 2, DefaultWidth, DefaultHeight>>,
      <<2, 1, DefaultWidth, AltHeight>> }

MatTok ==
    { <<"1">>, <<"4",".","2","5","5">>, <<"-","5","4",".","1","3">>,
      <<"1","e","2">>, <<"+","i","n","f">>, <<"x">>, <<>>,
      <<"U+00A0","U+0663",".","U+FF15">> }       \* no-break space, 3.5

\* "matrix(" a b c d then the given tail tokens ")"
Matrix(a, tail) ==
    <<"m","a","t","r","i","x","(">> \o Join(<<a, <<"0">>, <<"0">>, a>> \o tail, <<" ">>)
    \o <<")">>

MatInputs ==
    {Matrix(a, <<e, f>>) : a \in {<<"1">>, <<"2">>}, e \in MatTok, f \in MatTok}
    \cup {Matrix(<<"1">>, <<e>>) : e \in MatTok}
    \cup {Matrix(<<"1">>, <<e, e, e>>) : e \in MatTok}
    \cup {<<"m","a","t","r","i","x","(","1",")">>}

Idle ==
    /\ files = <<>> /\ cur = 0 /\ pc = "idle" /\ glyph = <<>> /\ paths = <<>>
    /\ numbers = <<>> /\ base = <<>> /\ sn_base = <<>> /\ i = 0 /\ j = 0
    /\ cur_row = 0 /\ cur_col = 0 /\ attrib = <<>> /\ written = <<>>
    /\ outcome = <<>>
    /\ kanjivg_isdir = TRUE /\ output_dir = "dir"

SpIdle == sp_d = <<>> /\ sp_row = 0 /\ sp_col = 0 /\ sp_pc = "idle" /\ sp_res = <<>>
StIdle == st_mat = <<>> /\ st_row = 0 /\ st_col = 0 /\ st_pc = "idle" /\ st_res = <<>>

----------------------------------------------------------------------------
(* shift_path as a function of its arguments.                              *)

InitPath ==
    /\ boxes_per_line = DefaultBoxesPerLine
    /\ sp_d \in PathInputs
    /\ \E c \in CallPanels :
         /\ sp_row = c[1] /\ sp_col = c[2]
         /\ kanjivg_width = c[3] /\ kanjivg_height = c[4]
    /\ sp_pc = "call"
    /\ sp_res = <<>>
    /\ StIdle /\ Idle

CallShiftPath ==
    /\ sp_pc = "call"
    /\ sp_res' = shift_path(sp_d, sp_row, sp_col)
    /\ sp_pc' = "done"
    /\ UNCHANGED <<sp_d, sp_row, sp_col, cfgvars, fsvars, stvars, genvars>>

NextPath == CallShiftPath

SpecPath == InitPath /\ [][NextPath]_vars

(* shift_transform as a function of its arguments.                         *)

InitTransform ==
    /\ boxes_per_line = DefaultBoxesPerLine
    /\ st_mat \in MatInputs
    /\ \E c \in CallPanels :
         /\ st_row = c[1] /\ st_col = c[2]
         /\ kanjivg_width = c[3] /\ kanjivg_height = c[4]
    /\ st_pc = "call"
    /\ st_res = <<>>
    /\ SpIdle /\ Idle

CallShiftTransform ==
    /\ st_pc = "call"
    /\ st_res' = shift_transform(st_mat, st_row, st_col)
    /\ st_pc' = "done"
    /\ UNCHANGED <<st_mat, st_row, st_col, cfgvars, fsvars, spvars, genvars>>

NextTransform == CallShiftTransform

SpecTransform == InitTransform /\ [][NextTransform]_vars

----------------------------------------------------------------------------
(* The glyph documents.  A glyph is [svg, n, fault]: n strokes, flat under *)
(* the stroke group kanji[0][0], and as many labels under kanji[1], with   *)
(* one fault at most:                                                      *)
(*   badpath    the last stroke has an unsupported capital                 *)
(*   nonnum     the last label's transform has a non-numeric fifth token   *)
(*   shortmat   the last label's transform has five tokens                 *)
(*   fewlabels  the last label is missing                                  *)
(*   noid       the stroke group has no id attribute                       *)
(*   nogroup    the first group has no child group                         *)

Faults == {"badpath", "nonnum", "shortmat", "fewlabels", "noid", "nogroup"}

NotSvg == [svg |-> FALSE, n |-> 0, fault |-> "none"]
GlyphOf(n, fault) == [svg |-> TRUE, n |-> n, fault |-> fault]

\* The id attribute of the stroke group.
IdOf(g) == <<"k">> \o IntStr(g.n)

\* The d attribute of stroke k (0-based): even strokes have one M, odd
\* strokes two.
StrokeD(g, k) ==
    IF g.fault = "badpath" /\ k = g.n - 1 THEN <<"M","1",",","2","Z">>
    ELSE IF k % 2 = 0
    THEN <<"M">> \o IntStr(8 + k) \o <<".","0","4",",","2",".","5">>
         \o <<"c","1",",","2",",","3",",","4",",","5",",","6">>
    ELSE <<"M">> \o IntStr(k) \o <<",","-","4">>
         \o <<"C","1",",","2",",","3",",","4",",","5",",","6">>
         \o <<"M","7",",","8">> \o <<"S","1",",","2",",","3",",","4">>

\* The transform attribute of label k (0-based).
LabelMat(g, k) ==
    IF g.fault = "nonnum" /\ k = g.n - 1 THEN Matrix(<<"1">>, <<<<"x">>, <<"5">>>>)
    ELSE IF g.fault = "shortmat" /\ k = g.n - 1 THEN Matrix(<<"1">>, <<<<"5">>>>)
    ELSE Matrix(<<"1">>, <<IntStr(4 + k) \o <<".","2","5">>, <<"5","4",".","1","3">>>>)

LabelCount(g) == IF g.fault = "fewlabels" THEN g.n - 1 ELSE g.n

\* Elements of the tree: one record shape for path, text and circle.
PathElem(id, d, orig) ==
    [tag |-> "path", orig |-> orig, id |-> id, d |-> d, x |-> <<>>, y |-> <<>>]
TextElem(mat, text, orig) ==
    [tag |-> "text", orig |-> orig, id |-> <<>>, d |-> mat, x |-> text, y |-> <<>>]

\* circle(x, y): cx = str(x), cy = str(y); x and y are None when the path
\* has no M run.
circle(first) ==
    [tag |-> "circle", orig |-> FALSE, id |-> <<>>, d |-> <<>>,
     x |-> IF first = <<>> THEN NoneStr ELSE FloatStr(first[1]),
     y |-> IF first = <<>> THEN NoneStr ELSE FloatStr(first[2])]

\* etree.parse: the children of kanji[0][0] and of kanji[1] as read.
ParsedBase(g) ==
    IF g.fault = "nogroup" THEN <<>>
    ELSE [k \in 1..g.n |-> PathElem(IdOf(g) \o <<"-","s">> \o IntStr(k),
                                    StrokeD(g, k - 1), TRUE)]
ParsedLabels(g) ==
    [k \in 1..LabelCount(g) |-> TextElem(LabelMat(g, k - 1), IntStr(k), TRUE)]

ParsedAttrib ==
    [width |-> IntStr(DefaultWidth), height |-> IntStr(DefaultHeight),
     viewBox |-> <<"0"," ","0"," ">> \o IntStr(DefaultWidth) \o <<" ">>
                 \o IntStr(DefaultHeight)]

----------------------------------------------------------------------------
(* make_diagram                                                            *)

RemoveAt(s, p) == SubSeq(s, 1, p - 1) \o SubSeq(s, p + 1, Len(s))

\* A bug the removal loops could have: an iterator that keeps an index,
\* as a list iterator does, and so steps over the element that moved up.
NextChildByIndex(p) == p + 1

\* The child iterator fetches the next sibling before it hands out the
\* current child; once the current child at position p is removed, that
\* sibling is at position p.
NextChild(p) == p

\* for ele in base: base.remove(ele)
RECURSIVE RemoveChildren(_, _)
RemoveChildren(children, p) ==
    IF p > Len(children) THEN children
    ELSE RemoveChildren(RemoveAt(children, p), NextChild(p))

\* id_base + '-s' + str(j) + '-' + str(cur_row) + '-' + str(cur_col)
PathId(id_base, sj, row, col) ==
    id_base \o <<"-","s">> \o IntStr(sj) \o <<"-">> \o IntStr(row) \o <<"-">>
    \o IntStr(col)

\* A bug the column wrap could have: the comparison off by one.
WrapsLate(col) == col > boxes_per_line

\* if cur_col >= boxes_per_line
Wraps(col) == col >= boxes_per_line

Raise(exc) ==
    /\ pc' = "raised"
    /\ outcome' = [outcome EXCEPT ![cur] = exc]

\* Lines 119-135: navigation, collecting paths and numbers, emptying both
\* groups, the counters.
MdEnter ==
    /\ pc = "md_enter"
    /\ IF glyph.fault = "nogroup"
       THEN Raise("IndexError")
            /\ UNCHANGED <<paths, numbers, base, sn_base, i, cur_row, cur_col>>
       ELSE IF glyph.fault = "noid"
       THEN Raise("KeyError")
            /\ UNCHANGED <<paths, numbers, base, sn_base, i, cur_row, cur_col>>
       ELSE /\ paths' = [k \in 1..Len(base) |-> base[k].d]
            /\ numbers' = [k \in 1..Len(sn_base) |-> sn_base[k].d]
            /\ base' = RemoveChildren(base, 1)
            /\ sn_base' = RemoveChildren(sn_base, 1)
            /\ cur_row' = 0 /\ cur_col' = 0 /\ i' = 0
            /\ pc' = "md_outer"
            /\ UNCHANGED outcome
    /\ UNCHANGED <<files, cur, glyph, j, attrib, written, cfgvars, fsvars,
                   spvars, stvars>>

\* Line 136, the range has a next i.
MdOuterNext ==
    /\ pc = "md_outer" /\ i < Len(paths)
    /\ j' = 0
    /\ pc' = "md_inner"
    /\ UNCHANGED <<files, cur, glyph, paths, numbers, base, sn_base, i, cur_row,
                   cur_col, attrib, written, outcome, cfgvars, fsvars,
                   spvars, stvars>>

\* Line 136, the range is exhausted.
MdOuterExit ==
    /\ pc = "md_outer" /\ i >= Len(paths)
    /\ pc' = "md_size"
    /\ UNCHANGED <<files, cur, glyph, paths, numbers, base, sn_base, i, j, cur_row,
                   cur_col, attrib, written, outcome, cfgvars, fsvars,
                   spvars, stvars>>

\* Lines 148-151: the copy of label j, t the result of shift_transform.
MdText(withPath, t) ==
    IF t.status # "ok"
    THEN Raise(t.status) /\ base' = withPath /\ UNCHANGED <<sn_base, j>>
    ELSE /\ base' = withPath
         /\ sn_base' = Append(sn_base, TextElem(t.mat, IntStr(j), FALSE))
         /\ IF j < i
            THEN j' = j + 1 /\ pc' = "md_inner"
            ELSE j' = j /\ pc' = "md_circle"
         /\ UNCHANGED outcome

\* Lines 141-149: the copy of stroke j, r the result of shift_path, and
\* numbers[j].
MdPath(r) ==
    IF r.err
    THEN Raise("ValueError") /\ UNCHANGED <<base, sn_base, j>>
    ELSE IF j + 1 > Len(numbers)
    THEN /\ Raise("IndexError")
         /\ base' = Append(base, PathElem(PathId(IdOf(glyph), j, cur_row, cur_col),
                                          r.d, FALSE))
         /\ UNCHANGED <<sn_base, j>>
    ELSE MdText(Append(base, PathElem(PathId(IdOf(glyph), j, cur_row, cur_col),
                                      r.d, FALSE)),
                shift_transform(numbers[j + 1], cur_row, cur_col))

\* Lines 138-151 for one j: the copy of stroke j and of label j.
MdInner ==
    /\ pc = "md_inner"
    /\ MdPath(shift_path(paths[j + 1], cur_row, cur_col))
    /\ UNCHANGED <<files, cur, glyph, paths, numbers, i, cur_row, cur_col, attrib,
                   written, cfgvars, fsvars,
                   spvars, stvars>>

\* Lines 154-158: the circle at x, y of r, the counters.
MdMark(r) ==
    IF r.err
    THEN Raise("ValueError") /\ UNCHANGED <<base, cur_row, cur_col, i>>
    ELSE /\ base' = Append(base, circle(r.first))
         /\ IF Wraps(cur_col + 1)
            THEN cur_col' = 0 /\ cur_row' = cur_row + 1
            ELSE cur_col' = cur_col + 1 /\ cur_row' = cur_row
         /\ i' = i + 1
         /\ pc' = "md_outer"
         /\ UNCHANGED outcome

\* Lines 153-158: the circle at the start of paths[j], the counters.
MdCircle ==
    /\ pc = "md_circle"
    /\ MdMark(shift_path(paths[j + 1], cur_row, cur_col))
    /\ UNCHANGED <<files, cur, glyph, paths, numbers, sn_base, j, attrib, written,
                   cfgvars, fsvars,
                   spvars, stvars>>

\* Lines 160-169: width, height and viewBox from the counters.
MdSize ==
    /\ pc = "md_size"
    /\ LET cols == IF cur_row = 0 THEN cur_col + 1 ELSE boxes_per_line
           vwidth == kanjivg_width * cols
           vheight == kanjivg_height * (cur_row + 1)
       IN  attrib' = [width |-> IntStr(kanjivg_width * cols),
                      height |-> IntStr(kanjivg_height * (cur_row + 1)),
                      viewBox |-> <<"0"," ","0"," ">> \o IntStr(vwidth) \o <<" ">>
                                  \o IntStr(vheight)]
    /\ pc' = "md_return"
    /\ outcome' = [outcome EXCEPT ![cur] = "ok"]
    /\ UNCHANGED <<files, cur, glyph, paths, numbers, base, sn_base, i, j, cur_row,
                   cur_col, written, cfgvars, fsvars,
                   spvars, stvars>>

----------------------------------------------------------------------------
(* gen_strokes                                                             *)

\* Lines 173-174: kanjivg is not a directory, sys.exit ends the run before
\* anything is listed.
GenExit ==
    /\ pc = "start" /\ ~kanjivg_isdir
    /\ pc' = "exited"
    /\ UNCHANGED <<files, cur, glyph, paths, numbers, base, sn_base, i, j, cur_row,
                   cur_col, attrib, written, outcome, cfgvars, fsvars,
                   spvars, stvars>>

\* Lines 173-178: kanjivg is a directory; output_dir is one, or is made;
\* the parser is built and cur is 0.
GenOpen ==
    /\ pc = "start" /\ kanjivg_isdir /\ output_dir # "file"
    /\ output_dir' = "dir"
    /\ cur' = 0
    /\ pc' = "loop"
    /\ UNCHANGED <<files, glyph, paths, numbers, base, sn_base, i, j, cur_row,
                   cur_col, attrib, written, outcome, kanjivg_isdir, cfgvars,
                   spvars, stvars>>

\* Lines 175-176 with a file of that name in the way: os.mkdir raises
\* FileExistsError, which leaves gen_strokes.
GenMkdirFails ==
    /\ pc = "start" /\ kanjivg_isdir /\ output_dir = "file"
    /\ pc' = "crashed"
    /\ UNCHANGED <<files, cur, glyph, paths, numbers, base, sn_base, i, j, cur_row,
                   cur_col, attrib, written, outcome, cfgvars, fsvars,
                   spvars, stvars>>

\* Lines 179-186 for a name ending in '.svg': a fresh tree is parsed and
\* make_diagram is entered.
GenParse ==
    /\ pc = "loop" /\ cur < Len(files) /\ files[cur + 1].svg
    /\ cur' = cur + 1
    /\ glyph' = files[cur + 1]
    /\ base' = ParsedBase(files[cur + 1])
    /\ sn_base' = ParsedLabels(files[cur + 1])
    /\ attrib' = ParsedAttrib
    /\ outcome' = Append(outcome, "running")
    /\ pc' = "md_enter"
    /\ UNCHANGED <<files, paths, numbers, i, j, cur_row, cur_col, written,
                   cfgvars, fsvars,
                   spvars, stvars>>

\* Lines 179-183 for any other name.
GenSkip ==
    /\ pc = "loop" /\ cur < Len(files) /\ ~files[cur + 1].svg
    /\ cur' = cur + 1
    /\ outcome' = Append(outcome, "notsvg")
    /\ UNCHANGED <<files, pc, glyph, paths, numbers, base, sn_base, i, j, cur_row,
                   cur_col, attrib, written, cfgvars, fsvars,
                   spvars, stvars>>

\* Lines 187-190: except ValueError: report and continue.
GenExcept ==
    /\ pc = "raised" /\ outcome[cur] = "ValueError"
    /\ pc' = "loop"
    /\ UNCHANGED <<files, cur, glyph, paths, numbers, base, sn_base, i, j, cur_row,
                   cur_col, attrib, written, outcome, cfgvars, fsvars,
                   spvars, stvars>>

\* Any other exception leaves the try statement and gen_strokes: the run
\* ends with a traceback.
GenPropagate ==
    /\ pc = "raised" /\ outcome[cur] # "ValueError"
    /\ pc' = "crashed"
    /\ UNCHANGED <<files, cur, glyph, paths, numbers, base, sn_base, i, j, cur_row,
                   cur_col, attrib, written, outcome, cfgvars, fsvars,
                   spvars, stvars>>

\* Lines 191-193: the license comment is inserted and the tree written.
GenWrite ==
    /\ pc = "md_return"
    /\ written' = Append(written, [f |-> cur, comment |-> TRUE, base |-> base,
                                   sn_base |-> sn_base, attrib |-> attrib])
    /\ pc' = "loop"
    /\ UNCHANGED <<files, cur, glyph, paths, numbers, base, sn_base, i, j, cur_row,
                   cur_col, attrib, outcome, cfgvars, fsvars,
                   spvars, stvars>>

\* Line 194: the listing is exhausted.
GenFinish ==
    /\ pc = "loop" /\ cur >= Len(files)
    /\ pc' = "finished"
    /\ UNCHANGED <<files, cur, glyph, paths, numbers, base, sn_base, i, j, cur_row,
                   cur_col, attrib, written, outcome, cfgvars, fsvars,
                   spvars, stvars>>

Next ==
    \/ GenExit \/ GenOpen \/ GenMkdirFails
    \/ GenParse \/ GenSkip \/ GenExcept \/ GenPropagate \/ GenWrite \/ GenFinish
    \/ MdEnter \/ MdOuterNext \/ MdOuterExit \/ MdInner \/ MdCircle \/ MdSize

\* gen_strokes is called: kanjivg is a directory or not, output_dir is a
\* directory, a file or absent.
GenStart ==
    /\ kanjivg_isdir \in BOOLEAN
    /\ output_dir \in {"dir", "file", "absent"}
    /\ cur = 0 /\ pc = "start" /\ glyph = NotSvg /\ paths = <<>> /\ numbers = <<>>
    /\ base = <<>> /\ sn_base = <<>> /\ i = 0 /\ j = 0 /\ cur_row = 0 /\ cur_col = 0
    /\ attrib = ParsedAttrib /\ written = <<>> /\ outcome = <<>>

\* The files of a directory listing: short glyphs, sound or with a fault.
ListedFiles ==
    {NotSvg, GlyphOf(1, "none"), GlyphOf(2, "none")}
    \cup {GlyphOf(2, f) : f \in Faults}

RECURSIVE Listings(_)
Listings(n) ==
    IF n = 0 THEN {<<>>}
    ELSE {Append(l, g) : l \in Listings(n - 1), g \in ListedFiles}

\* gen_strokes as configured in the source, kanjivg a directory of up to
\* MaxFiles files or no directory, with nothing to list.
Init ==
    /\ boxes_per_line = DefaultBoxesPerLine
    /\ kanjivg_width = DefaultWidth
    /\ kanjivg_height = DefaultHeight
    /\ GenStart
    /\ files \in (IF kanjivg_isdir THEN UNION {Listings(n) : n \in 0..MaxFiles}
                  ELSE {<<>>})
    /\ SpIdle /\ StIdle

Spec == Init /\ [][Next]_vars

\* The configurations examined for one diagram.
Configs ==
    {<<DefaultBoxesPerLine, DefaultWidth, DefaultHeight>>}
    \cup {<<b, DefaultWidth, h>> : b \in 1..MaxBoxes, h \in {DefaultHeight, AltHeight}}

DiagramFiles ==
    {NotSvg} \cup {GlyphOf(n, "none") : n \in 0..MaxStrokes}
    \cup {GlyphOf(n, f) : n \in 1..MaxStrokes, f \in Faults}

\* gen_strokes for every configuration, kanjivg a directory of one file or
\* no directory.
InitDiagram ==
    /\ \E c \in Configs :
         boxes_per_line = c[1] /\ kanjivg_width = c[2] /\ kanjivg_height = c[3]
    /\ GenStart
    /\ files \in (IF kanjivg_isdir THEN {<<g>> : g \in DiagramFiles} ELSE {<<>>})
    /\ SpIdle /\ StIdle

SpecDiagram == InitDiagram /\ [][Next]_vars

----------------------------------------------------------------------------
(* Properties of shift_path (SpecPath).                                    *)

\* The result built in one pass over the original string: what no match
\* covers is copied, every match is replaced by its rewritten run.
RECURSIVE LeftToRight(_, _, _, _, _, _)
LeftToRight(orig, ms, k, pos, x_shift, y_shift) ==
    IF k > Len(ms) THEN SliceFrom(orig, pos)
    ELSE Slice(orig, pos, ms[k].start)
         \o RewriteRun(Slice(orig, ms[k].start, ms[k].end), x_shift, y_shift)
         \o LeftToRight(orig, ms, k + 1, ms[k].end, x_shift, y_shift)

RunAt(d, m) == Slice(d, m.start, m.end)

TokensOf(s) == Split(Tail(s), ",")

\* A decimal numeral written with digits, '.' and '-' as an exact signed
\* number of units of 10^-f, f at least its number of fractional digits.
DecOk(tok) == IsFloat(tok) /\ \A k \in 1..Len(tok) : tok[k] \in PayloadCh \ {","}
DecFrac(tok) == IF IndexOf(tok, ".") = 0 THEN 0 ELSE Len(tok) - IndexOf(tok, ".")
DecAt(tok, f) ==
    LET ds == OnlyDigits(tok)
    IN  [neg |-> tok[1] = "-",
         mag |-> BMulPow10(BFromDigits(ds, 1, Len(ds)), f - DecFrac(tok))]
DecInt(n, f) == [neg |-> n < 0, mag |-> BMulPow10(BFromInt(Abs(n)), f)]
DecSum(a, b) ==
    IF a.neg = b.neg THEN [neg |-> a.neg, mag |-> BAdd(a.mag, b.mag)]
    ELSE IF BCmp(a.mag, b.mag) >= 0 THEN [neg |-> a.neg, mag |-> BSub(a.mag, b.mag)]
    ELSE [neg |-> b.neg, mag |-> BSub(b.mag, a.mag)]
DecMinus(a) == [neg |-> ~a.neg, mag |-> a.mag]

\* |out - (in + shift)| <= num * 10^-k, in exact decimal arithmetic: the
\* numeral out is the numeral in moved by shift, to within the precision
\* the formats print ('{:.2f}': half a hundredth) or the rounding of one
\* float addition.
Near(out, in, shift, num, k) ==
    /\ DecOk(out) /\ DecOk(in)
    /\ LET f == Max(Max(DecFrac(out), DecFrac(in)), k)
           want == DecSum(DecAt(in, f), DecInt(shift, f))
           diff == DecSum(DecAt(out, f), DecMinus(want))
       IN  BCmp(diff.mag, BMulPow10(BFromInt(num), f - k)) <= 0

\* C1: shift_path returns the left-to-right concatenation of the rewritten
\* runs in their original order (the splice with the cumulative offset
\* neither overwrites nor duplicates a neighbour's characters), with the
\* same runs, the same number of coordinates in each run, and every
\* x-coordinate moved by col * cell width, every y-coordinate by
\* row * cell height (to within half a hundredth, the precision of the
\* '{:.2f}' format).
C1_ShiftPathConcatenates ==
    (sp_pc = "done" /\ ~sp_res.err) =>
        LET mi == caps_re_finditer(sp_d)
            mo == caps_re_finditer(sp_res.d)
            dx == sp_col * kanjivg_width
            dy == sp_row * kanjivg_height
        IN  /\ sp_res.d = LeftToRight(sp_d, mi, 1, 0, dx, dy)
            /\ Len(mo) = Len(mi)
            /\ \A k \in 1..Len(mi) :
                 LET ri == RunAt(sp_d, mi[k])
                     ro == RunAt(sp_res.d, mo[k])
                 IN  /\ ro[1] = ri[1]
                     /\ PartsOk(ro)
                     /\ Len(TokensOf(ro)) = Len(TokensOf(ri))
                     /\ \A n \in 1..Len(TokensOf(ri)) :
                          Near(TokensOf(ro)[n], TokensOf(ri)[n],
                               IF n % 2 = 1 THEN dx ELSE dy, 5, 3)

HasLetter(d, set) == \E k \in 1..Len(d) : d[k] \in set

\* C7 as stated: a path with any command letter other than M, C, S, of
\* either case, makes shift_path raise.
C7_AnyOtherLetterRaises ==
    (sp_pc = "done" /\ HasLetter(sp_d, (Upper \cup Lower) \ {"M", "C", "S"}))
        => sp_res.err

\* C7 amended: a path with a capital letter other than M, C, S, at any
\* position, makes shift_path raise; lowercase letters are not matched.
C7_OtherCapitalRaises ==
    (sp_pc = "done" /\ HasLetter(sp_d, Upper \ {"M", "C", "S"})) => sp_res.err

\* A call that raised on a Z that follows runs which rewrite without error.
C7_Witness ==
    /\ sp_pc = "done" /\ sp_res.err
    /\ \E k \in 2..Len(sp_d) :
         /\ sp_d[k] = "Z"
         /\ ~shift_path(Slice(sp_d, 0, k - 1), sp_row, sp_col).err
         /\ Len(caps_re_finditer(Slice(sp_d, 0, k - 1))) >= 1

(* Properties of shift_transform (SpecTransform).                          *)

\* C6: the result is matrix(1 0 0 1 e' f') with e' = e + col * cell width
\* and f' = f + row * cell height.
C6_RowScaledByHeight ==
    (st_pc = "done" /\ st_res.status = "ok") =>
        LET parts == Split(Slice(st_mat, 7, -1), " ")
        IN  st_res.mat = TransformPrefix
                \o Fmt2(FloatAdd(FloatVal(parts[5]), st_col * kanjivg_width))
                \o <<" ">>
                \o Fmt2(FloatAdd(FloatVal(parts[6]), st_row * kanjivg_height))
                \o <<")">>

----------------------------------------------------------------------------
(* Properties of make_diagram (SpecDiagram).                               *)

\* The number of elements make_diagram appends before panel p: the paths
\* and circles of the panels 0..p-1.
PanelStart(p) == (p * (p + 1)) \div 2 + p

PositionsOf(tag) == {k \in 1..Len(base) : base[k].tag = tag}

\* C2: after make_diagram returns for a glyph of N strokes, the stroke
\* group holds N panels, panel p being the copies of strokes 0..p, once
\* each, followed by one circle: N(N+1)/2 paths and N circles in all, and
\* none of the elements that were read.
C2_PanelCounts ==
    pc = "md_return" =>
        /\ Cardinality(PositionsOf("path")) = (glyph.n * (glyph.n + 1)) \div 2
        /\ Cardinality(PositionsOf("circle")) = glyph.n
        /\ Len(base) = (glyph.n * (glyph.n + 1)) \div 2 + glyph.n
        /\ \A k \in 1..Len(base) : ~base[k].orig
        /\ \A p \in 0..(glyph.n - 1) :
             /\ \A s \in 0..p :
                  /\ PanelStart(p) + s + 1 \in PositionsOf("path")
                  /\ base[PanelStart(p) + s + 1].id
                       = PathId(IdOf(glyph), s, p \div boxes_per_line,
                                p % boxes_per_line)
             /\ PanelStart(p) + p + 2 \in PositionsOf("circle")

\* make_diagram returned for a glyph of three strokes or more.
C2_Witness == pc = "md_return" /\ glyph.n >= 3

\* C3: the width attribute and the viewBox width are the cell width times
\* min(N, B) when the N panels fit in one row, times B otherwise.
C3_WidthOfLastPanel ==
    (pc = "md_return" /\ glyph.n >= 1) =>
        LET w == kanjivg_width * (IF glyph.n <= boxes_per_line
                                  THEN Min(glyph.n, boxes_per_line)
                                  ELSE boxes_per_line)
        IN  /\ attrib.width = IntStr(w)
            /\ Split(attrib.viewBox, " ")[3] = IntStr(w)

\* C4: the height attribute and the viewBox height are the cell height
\* times the number of rows occupied, ((N-1) // B) + 1.
C4_HeightOfRowsUsed ==
    (pc = "md_return" /\ glyph.n >= 1) =>
        LET h == kanjivg_height * (((glyph.n - 1) \div boxes_per_line) + 1)
        IN  /\ attrib.height = IntStr(h)
            /\ Split(attrib.viewBox, " ")[4] = IntStr(h)

\* The payload of the first M run of a path as read, <<>> without one.
FirstM(d) ==
    LET ms == caps_re_finditer(d)
        at == {k \in 1..Len(ms) : d[ms[k].start + 1] = "M"}
    IN  IF at = {} THEN <<>>
        ELSE LET k == CHOOSE a \in at : \A b \in at : a <= b
                 toks == Split(Slice(d, ms[k].start + 1, ms[k].end), ",")
             IN  <<toks[1], toks[2]>>

\* C5: the circle of panel p is at the start point of stroke p, the
\* payload of the first M run of its path, moved into the panel (cx and cy
\* are str() of the float sums: equal to the decimal sums to within 10^-9).
C5_CircleAtFirstMove ==
    pc = "md_return" =>
        \A p \in 0..(glyph.n - 1) :
            LET c == base[PanelStart(p) + p + 2]
                m == FirstM(StrokeD(glyph, p))
            IN  m # <<>> =>
                  /\ c.tag = "circle"
                  /\ Near(c.x, m[1], (p % boxes_per_line) * kanjivg_width, 1, 9)
                  /\ Near(c.y, m[2], (p \div boxes_per_line) * kanjivg_height, 1, 9)

\* make_diagram returned for a glyph with a stroke of two M runs, its
\* panel on a later row, the cell height unlike the cell width.
C5_Witness ==
    /\ pc = "md_return" /\ glyph.n >= 2
    /\ boxes_per_line = 1 /\ kanjivg_height # kanjivg_width
    /\ Cardinality({k \in 1..Len(paths[2]) : paths[2][k] = "M"}) = 2

\* The path out is the path in with the coordinates of its M, C and S runs
\* moved, x by dx and y by dy (to within half a hundredth, the precision
\* of the '{:.2f}' format): the same runs in the same order, coordinate
\* for coordinate, and between the runs the same text.
MovedBy(out, in, dx, dy) ==
    LET mi == caps_re_finditer(in)
        mo == caps_re_finditer(out)
    IN  /\ Len(mo) = Len(mi)
        /\ \A k \in 1..Len(mi) :
             LET ri == RunAt(in, mi[k])
                 ro == RunAt(out, mo[k])
             IN  /\ ri[1] \in {"M", "C", "S"}
                 /\ ro[1] = ri[1]
                 /\ Len(TokensOf(ro)) = Len(TokensOf(ri))
                 /\ \A n \in 1..Len(TokensOf(ri)) :
                      Near(TokensOf(ro)[n], TokensOf(ri)[n],
                           IF n % 2 = 1 THEN dx ELSE dy, 5, 3)
                 /\ Slice(out, IF k = 1 THEN 0 ELSE mo[k - 1].end, mo[k].start)
                      = Slice(in, IF k = 1 THEN 0 ELSE mi[k - 1].end, mi[k].start)
        /\ SliceFrom(out, IF mo = <<>> THEN 0 ELSE mo[Len(mo)].end)
             = SliceFrom(in, IF mi = <<>> THEN 0 ELSE mi[Len(mi)].end)

InDiagram == pc \in {"md_outer", "md_inner", "md_circle", "md_size", "md_return"}

\* C10: at the start of outer iteration i, and through it, cur_row is
\* i // boxes_per_line and cur_col is i % boxes_per_line; each copy of
\* stroke s in panel p is moved by that panel's column and row and has
\* the id base-s{s}-{row}-{col}; no two generated paths share an id.  The
\* translation of a copy is examined in the state where it was appended
\* (nothing changes an element once it is in the tree).
C10_CountersFollowIndex ==
    /\ (pc \in {"md_inner", "md_circle"} \/ (pc = "md_outer" /\ i < Len(paths))) =>
         /\ cur_row = i \div boxes_per_line
         /\ cur_col = i % boxes_per_line
         /\ cur_col \in 0..(boxes_per_line - 1)
    /\ InDiagram =>
         /\ \A p \in 0..(Len(paths) - 1) : \A s \in 0..p :
              LET k == PanelStart(p) + s + 1
              IN  k <= Len(base) =>
                    /\ base[k].tag = "path" /\ ~base[k].orig
                    /\ base[k].id = PathId(IdOf(glyph), s, p \div boxes_per_line,
                                           p % boxes_per_line)
                    /\ k = Len(base) =>
                          MovedBy(base[k].d, StrokeD(glyph, s),
                                  (p % boxes_per_line) * kanjivg_width,
                                  (p \div boxes_per_line) * kanjivg_height)
         /\ \A a, b \in PositionsOf("path") : base[a].id = base[b].id => a = b

\* An outer iteration starts on a later row, off the first column.
C10_Witness ==
    /\ pc = "md_inner" /\ j = 0 /\ cur_row >= 1 /\ cur_col >= 1
    /\ Len(base) > 0

----------------------------------------------------------------------------
(* Properties of gen_strokes (Spec).                                       *)

Failed(k) == outcome[k] \in {"ValueError", "IndexError", "KeyError"}

WrittenFiles == {written[k].f : k \in 1..Len(written)}

\* C8: a glyph that fails with a malformed path, a malformed label
\* transform or a malformed structure is skipped; the run goes on, and
\* every later sound glyph is written.
C8_FailureSkipsOneGlyph ==
    \A k \in 1..Len(outcome) :
        Failed(k) =>
          /\ pc # "crashed"
          /\ pc = "finished" =>
               \A m \in (k + 1)..Len(files) :
                   (files[m].svg /\ files[m].fault = "none") => m \in WrittenFiles

Sound(g) == g.svg /\ g.fault = "none"

RunOver == pc \in {"finished", "crashed", "exited"}

\* C9: a document is written for a file only when make_diagram completed
\* for it, and is that glyph's own diagram, whole; a glyph that failed,
\* part-way too, is never written; and a failure leaves the other glyphs
\* as they would be without it: when the run is over, every sound glyph
\* of the listing is written, the same document for the same glyph.
C9_AllOrNothing ==
    /\ \A k \in 1..Len(written) :
         LET w == written[k]
             g == files[w.f]
         IN  /\ Sound(g)
             /\ outcome[w.f] = "ok"
             /\ Len(w.base) = (g.n * (g.n + 1)) \div 2 + g.n
             /\ Len(w.sn_base) = (g.n * (g.n + 1)) \div 2
             /\ \A e \in 1..Len(w.base) :
                  /\ ~w.base[e].orig
                  /\ w.base[e].tag = "path" =>
                       Slice(w.base[e].id, 0, Len(IdOf(g)) + 2) = IdOf(g) \o <<"-","s">>
    /\ \A f \in 1..Len(outcome) : Failed(f) => f \notin WrittenFiles
    /\ \A f \in 1..Len(outcome) :
         (Failed(f) /\ RunOver) =>
             \A m \in 1..Len(files) : Sound(files[m]) => m \in WrittenFiles
    /\ \A a, b \in 1..Len(written) :
         files[written[a].f] = files[written[b].f] =>
             /\ written[a].base = written[b].base
             /\ written[a].sn_base = written[b].sn_base
             /\ written[a].attrib = written[b].attrib

====
